---- MODULE Spec2Model ----
(***************************************************************************)
(* A model of the coroutine-aware SPSC channel (src/src/sync/spsc.rs) and  *)
(* of the IOCP selector (src/src/io/sys/windows/iocp.rs).                  *)
(*                                                                         *)
(* The channel is one InnerQueue shared by one Sender and one Receiver.    *)
(* Every atomic access of the code (a queue push or pop, a load or store   *)
(* of channels / port_dropped, a take or store of the waiter slot) is one  *)
(* step, so every interleaving of the two sides is explored.               *)
(***************************************************************************)
EXTENDS Integers, Sequences, FiniteSets, TLC

\* number of send calls the Sender makes before it can only be dropped
MaxSend == 3

\* the word a CoroutineImpl handle transmutes to (a pointer: low bit 0)
CoHandle == 2
\* the word a Thread handle transmutes to (a pointer: low bit 0)
ThreadHandle == 4

\* number of I/O operations (one EventData and one waiting coroutine each)
NOps == 2

\* widths and unit of the timeout conversion, scaled down: U32Bits stands for
\* the 32 bits of the u32 handed to the port, U64Bits for the 64 bits of the
\* nanosecond argument, NanosPerMilli for the 1,000,000 ns of a millisecond
U32Bits == 4
U64Bits == 8
NanosPerMilli == 4

\* the largest handle word a Blocker is built from in the encoding check
MaxHandle == 64

\* the bytes a wrapped stream holds to read or takes on write, the longest
\* buffer passed to read / write, and the number of streams to wrap
MaxBytes == 2
MaxBuf == 2
NStreams == 2

\* the operations, and the coroutine that waits for operation t is coroutine t
Ops == 1..NOps

\* status words of a completion
NO_ERROR == 0
ERROR_OPERATION_ABORTED == 995
ERROR_NETNAME_DELETED == 64

VARIABLES
    queue,          \* InnerQueue.queue: the SPSC FIFO
    wait_co,        \* InnerQueue.wait_co: 0 for None, else the Blocker's handle word
    channels,       \* InnerQueue.channels
    port_dropped,   \* InnerQueue.port_dropped
    spc,            \* the Sender's position
    sval,           \* the argument of the send in progress
    sres,           \* the result of the last send
    nsend,          \* number of send calls made so far
    sAfterDrop,     \* the send in progress started after drop_port had completed
    rkind,          \* "co": the Receiver is used by a coroutine; "thread": by an OS thread
    rpc,            \* the Receiver's position
    tpc,            \* the position inside try_recv
    tres,           \* the value try_recv is returning
    rres,           \* the result last returned to the Receiver's caller
    co,             \* the receiving coroutine: "running", "suspended" or "none"
    ready,          \* number of times the coroutine handle sits in the scheduler's ready queue
    subpc,          \* the worker's position inside Park::subscribe
    wait_kernel,    \* Park.wait_kernel
    token,          \* the receiving thread's park token
    sent,           \* history: the items pushed by send, in order
    received,       \* history: the items returned by recv / try_recv, in order
    api,            \* the Receiver method in progress: "recv", "try_recv", "iter" (next of
                    \* Iter / IntoIter), "try_iter" (next of TryIter), "none" between calls
    inext,          \* what the last call returned if it was next() of an iterator
    dropped_blockers, \* the kinds of Blocker that Drop for Blocker has run for
    destroyed,      \* the InnerQueue has been destroyed
    io_state,       \* per I/O operation: how far the operation has got
    ev_co,          \* per operation: EventData.co, 0 for None, else the coroutine
    ev_timer,       \* per operation: EventData.timer is Some
    ev_status,      \* per operation: the status word overlapped.Internal
    timers,         \* the timer wheel: the operations with a pending TimerData entry
    expired,        \* the operations whose timer deadline has passed
    fired,          \* the operations whose entry timeout_handler has been called for
    port,           \* the completion port: the completions queued, oldest first
    events,         \* the completions get_many returned to the select in progress
    idx,            \* the event the loop of select is at
    selpc,          \* the position of the thread that calls select
    selres,         \* what the last call of select returned
    co_para,        \* per coroutine: the parameter slot set_co_para writes
    wakes,          \* per coroutine: number of times it was scheduled
    sel_sched,      \* per coroutine: number of schedule_io calls of the select in progress
    io_panic,       \* the panic the I/O code has raised, "none" if none
    timeout_arg,    \* the timeout argument of the last select: Option<u64>, nanoseconds
    port_wait,      \* the timeout that select handed to get_many: Option<u32>, milliseconds
    poll_res,       \* what get_many returned to the select in progress: "Ok",
                    \* "WAIT_TIMEOUT", or "none" when no select is past its get_many
    add_io_last,    \* the operation whose EventData the last add_io was called on, 0 if none
    bl_stage,       \* encoding check: "none", "made", "into" or "unparked"
    bl_kind,        \* encoding check: the constructor used, "co" or "thread"
    bl_handle,      \* encoding check: the handle word the Blocker was built from
    bl_word,        \* encoding check: Blocker.handle
    bl_out,         \* encoding check: the handle into_coroutine / into_thread gave back
    split_reader,   \* the SplitReader, NoWrapper before SplitReader::new
    split_writer,   \* the SplitWriter, NoWrapper before SplitWriter::new
    split_op,       \* the last method called on a wrapper
    split_res,      \* what that call returned
    bare_reader,    \* the reader's object as it is when the same calls are made on it directly
    bare_writer,    \* the writer's object as it is when the same calls are made on it directly
    bare_res        \* what the last call returned when made on the object directly

chanVars == <<queue, wait_co, channels, port_dropped>>
sndVars == <<spc, sval, sres, nsend, sAfterDrop>>
rcvVars == <<rkind, rpc, tpc, tres, rres>>
coVars == <<co, ready, subpc, wait_kernel, token>>
histVars == <<sent, received>>
extVars == <<api, inext, dropped_blockers, destroyed>>
toVars == <<timeout_arg, port_wait>>
blVars == <<bl_stage, bl_kind, bl_handle, bl_word, bl_out>>
splitVars == <<split_reader, split_writer, split_op, split_res,
              bare_reader, bare_writer, bare_res>>
ioCore == <<io_state, ev_co, ev_timer, ev_status, timers, expired, fired, port, events,
           idx, selpc, selres, co_para, wakes, sel_sched, io_panic, timeout_arg, port_wait,
           poll_res, add_io_last, bl_stage, bl_kind, bl_handle, bl_word, bl_out>>
ioVars == <<ioCore, splitVars>>
vars == <<queue, wait_co, channels, port_dropped, spc, sval, sres, nsend, sAfterDrop,
          rkind, rpc, tpc, tres, rres, co, ready, subpc, wait_kernel, token,
          sent, received, api, inext, dropped_blockers, destroyed, io_state, ev_co, ev_timer, ev_status, timers, expired, fired,
          port, events, idx, selpc, selres, co_para, wakes, sel_sched, io_panic,
          timeout_arg, port_wait, poll_res, add_io_last, bl_stage, bl_kind, bl_handle, bl_word,
          bl_out, split_reader, split_writer, split_op, split_res, bare_reader, bare_writer,
          bare_res>>

----------------------------------------------------------------------------
\* Results

Ok(v) == [tag |-> "Ok", val |-> v]
Err(v) == [tag |-> "Err", val |-> v]
Empty == [tag |-> "Empty", val |-> 0]
Disconnected == [tag |-> "Disconnected", val |-> 0]
RecvError == [tag |-> "RecvError", val |-> 0]
NoResult == [tag |-> "None", val |-> 0]

\* Option<T>, what next() of an iterator returns
Some(v) == [tag |-> "Some", val |-> v]
None == [tag |-> "Option::None", val |-> 0]

\* no SplitReader / SplitWriter has been made
NoStream == [id |-> 0, avail |-> 0, buffered |-> 0, flushed |-> 0, broken |-> FALSE]
NoWrapper == [inner |-> NoStream]

\* Option<u64> / Option<u32> of a timeout
OptNone == [some |-> FALSE, val |-> 0]
OptSome(v) == [some |-> TRUE, val |-> v]

\* Result::ok
ok(r) == IF r.tag = "Ok" THEN Some(r.val) ELSE None

\* the coroutine's parameter slot: empty, or the io::Error set_co_para put there
NoPara == [kind |-> "None", code |-> 0]
TimedOut == [kind |-> "TimedOut", code |-> 0]
OsError(e) == [kind |-> "Os", code |-> e]

----------------------------------------------------------------------------
\* Blocker: a tagged word

new_coroutine(h) == h

\* mutant of new_thread: the tag bit is not set
new_thread_NoTag(h) == h

new_thread(h) == IF h % 2 = 0 THEN h + 1 ELSE h

into_coroutine(b) == b

into_thread(b) == IF b % 2 = 1 THEN b - 1 ELSE b

IsCoroutineBlocker(b) == b /= 0 /\ b % 2 = 0

IsThreadBlocker(b) == b /= 0 /\ b % 2 = 1

\* Drop for Blocker, applied to the content of a waiter slot that is cleared,
\* overwritten or destroyed (0: None, nothing is dropped); a coroutine-tagged
\* Blocker runs into unreachable!()
drop_blocker(b) ==
    dropped_blockers' = dropped_blockers \cup
        (IF IsCoroutineBlocker(b) THEN {"co"} ELSE IF IsThreadBlocker(b) THEN {"thread"} ELSE {})

\* Blocker::unpark, applied to what a take of the waiter slot returned (0: None)
unpark(b) ==
    /\ ready' = IF IsCoroutineBlocker(b) THEN ready + 1 ELSE ready
    /\ token' = IF IsThreadBlocker(b) THEN TRUE ELSE token

----------------------------------------------------------------------------
\* Queue and AtomicOption

push(q, t) == Append(q, t)

is_empty(q) == q = <<>>

pop_value(q) == Head(q)

pop_rest(q) == Tail(q)

take_value(slot) == slot

take_rest(slot) == 0

----------------------------------------------------------------------------
Init ==
    /\ queue = <<>>
    /\ wait_co = 0
    /\ channels = 1
    /\ port_dropped = FALSE
    /\ spc = "idle"
    /\ sval = 0
    /\ sres = NoResult
    /\ nsend = 0
    /\ sAfterDrop = FALSE
    /\ rkind \in {"co", "thread"}
    /\ rpc = "idle"
    /\ tpc = "none"
    /\ tres = NoResult
    /\ rres = NoResult
    /\ co = IF rkind = "co" THEN "running" ELSE "none"
    /\ ready = 0
    /\ subpc = "none"
    /\ wait_kernel = FALSE
    /\ token = FALSE
    /\ sent = <<>>
    /\ received = <<>>
    /\ api = "none"
    /\ inext = NoResult
    /\ dropped_blockers = {}
    /\ destroyed = FALSE
    /\ io_state = [t \in Ops |-> "new"]
    /\ ev_co = [t \in Ops |-> 0]
    /\ ev_timer = [t \in Ops |-> FALSE]
    /\ ev_status = [t \in Ops |-> NO_ERROR]
    /\ timers = {}
    /\ expired = {}
    /\ fired = {}
    /\ port = <<>>
    /\ events = <<>>
    /\ idx = 1
    /\ selpc = "idle"
    /\ selres = "none"
    /\ co_para = [t \in Ops |-> NoPara]
    /\ wakes = [t \in Ops |-> 0]
    /\ sel_sched = [t \in Ops |-> 0]
    /\ io_panic = "none"
    /\ timeout_arg = OptNone
    /\ port_wait = OptNone
    /\ poll_res = "none"
    /\ add_io_last = 0
    /\ bl_stage = "none"
    /\ bl_kind = "co"
    /\ bl_handle = 0
    /\ bl_word = 0
    /\ bl_out = 0
    /\ split_reader = NoWrapper
    /\ split_writer = NoWrapper
    /\ split_op = "none"
    /\ split_res = NoResult
    /\ bare_reader = NoWrapper
    /\ bare_writer = NoWrapper
    /\ bare_res = NoResult

----------------------------------------------------------------------------
\* Sender

\* Sender::send is called with the next value
SendStart ==
    /\ spc = "idle"
    /\ nsend < MaxSend
    /\ nsend' = nsend + 1
    /\ sval' = nsend + 1
    /\ sAfterDrop' = (rpc = "dropped")
    /\ spc' = "send_check"
    /\ UNCHANGED <<sres>>
    /\ UNCHANGED <<chanVars, rcvVars, coVars, histVars>>
    /\ UNCHANGED extVars
    /\ UNCHANGED ioVars

\* mutant of SendCheck: send pushes without looking at port_dropped
SendCheck_NoPortCheck ==
    /\ spc = "send_check"
    /\ spc' = "send_push"
    /\ UNCHANGED <<sval, sres, nsend, sAfterDrop>>
    /\ UNCHANGED <<chanVars, rcvVars, coVars, histVars>>
    /\ UNCHANGED extVars
    /\ UNCHANGED ioVars

\* InnerQueue::send: the load of port_dropped
SendCheck ==
    /\ spc = "send_check"
    /\ IF port_dropped
         THEN /\ sres' = Err(sval)
              /\ spc' = "idle"
         ELSE /\ spc' = "send_push"
              /\ UNCHANGED sres
    /\ UNCHANGED <<sval, nsend, sAfterDrop>>
    /\ UNCHANGED <<chanVars, rcvVars, coVars, histVars>>
    /\ UNCHANGED extVars
    /\ UNCHANGED ioVars

\* mutant of SendPush: the queue holds at most two items and a send waits for room
SendPush_Bounded ==
    /\ spc = "send_push"
    /\ Len(queue) < 2
    /\ queue' = push(queue, sval)
    /\ sent' = Append(sent, sval)
    /\ spc' = "send_take"
    /\ UNCHANGED <<wait_co, channels, port_dropped, sval, sres, nsend, sAfterDrop, received>>
    /\ UNCHANGED <<rcvVars, coVars>>
    /\ UNCHANGED extVars
    /\ UNCHANGED ioVars

\* InnerQueue::send: self.queue.push(t)
SendPush ==
    /\ spc = "send_push"
    /\ queue' = push(queue, sval)
    /\ sent' = Append(sent, sval)
    /\ spc' = "send_take"
    /\ UNCHANGED <<wait_co, channels, port_dropped, sval, sres, nsend, sAfterDrop, received>>
    /\ UNCHANGED <<rcvVars, coVars>>
    /\ UNCHANGED extVars
    /\ UNCHANGED ioVars

\* mutant of SendTake: send unparks the waiter it reads but leaves it in the slot
SendTake_Peek ==
    /\ spc = "send_take"
    /\ unpark(wait_co)
    /\ sres' = Ok(0)
    /\ spc' = "idle"
    /\ UNCHANGED <<queue, wait_co, channels, port_dropped, sval, nsend, sAfterDrop>>
    /\ UNCHANGED <<rcvVars, co, subpc, wait_kernel, histVars>>
    /\ UNCHANGED extVars
    /\ UNCHANGED ioVars

\* InnerQueue::send: take the waiter slot, unpark what was in it, return Ok(())
SendTake ==
    /\ spc = "send_take"
    /\ wait_co' = take_rest(wait_co)
    /\ unpark(take_value(wait_co))
    /\ sres' = Ok(0)
    /\ spc' = "idle"
    /\ UNCHANGED <<queue, channels, port_dropped, sval, nsend, sAfterDrop>>
    /\ UNCHANGED <<rcvVars, co, subpc, wait_kernel, histVars>>
    /\ UNCHANGED extVars
    /\ UNCHANGED ioVars

\* Drop for Sender -> InnerQueue::drop_chan: the store of channels
DropChanStore ==
    /\ spc = "idle"
    /\ channels' = 0
    /\ spc' = "drop_take"
    /\ UNCHANGED <<queue, wait_co, port_dropped, sval, sres, nsend, sAfterDrop>>
    /\ UNCHANGED <<rcvVars, coVars, histVars>>
    /\ UNCHANGED extVars
    /\ UNCHANGED ioVars

\* mutant of DropChanTake: drop_chan clears the waiter slot instead of waking
\* what is in it
DropChanTake_ClearsSlot ==
    /\ spc = "drop_take"
    /\ wait_co' = 0
    /\ drop_blocker(wait_co)
    /\ spc' = "dropped"
    /\ UNCHANGED <<queue, channels, port_dropped, sval, sres, nsend, sAfterDrop>>
    /\ UNCHANGED <<rcvVars, coVars, histVars>>
    /\ UNCHANGED <<api, inext, destroyed>>
    /\ UNCHANGED ioVars

\* mutant of DropChanTake: drop_chan only stores channels and wakes nobody
DropChanTake_NoUnpark ==
    /\ spc = "drop_take"
    /\ spc' = "dropped"
    /\ UNCHANGED <<queue, wait_co, channels, port_dropped, sval, sres, nsend, sAfterDrop>>
    /\ UNCHANGED <<rcvVars, coVars, histVars>>
    /\ UNCHANGED extVars
    /\ UNCHANGED ioVars

\* InnerQueue::drop_chan: take the waiter slot and unpark
DropChanTake ==
    /\ spc = "drop_take"
    /\ wait_co' = take_rest(wait_co)
    /\ unpark(take_value(wait_co))
    /\ spc' = "dropped"
    /\ UNCHANGED <<queue, channels, port_dropped, sval, sres, nsend, sAfterDrop>>
    /\ UNCHANGED <<rcvVars, co, subpc, wait_kernel, histVars>>
    /\ UNCHANGED extVars
    /\ UNCHANGED ioVars

----------------------------------------------------------------------------
\* Receiver

\* the code of the Receiver runs: an OS thread always, a coroutine while resumed
Runnable == rkind = "thread" \/ co = "running"

\* the Receiver is inside a blocking recv
InRecv == rpc \in {"try1", "yield", "parked", "store", "try2", "clear", "park", "try3"}

\* Receiver::recv is called
RecvStart ==
    /\ rpc = "idle"
    /\ Runnable
    /\ rpc' = "try1"
    /\ tpc' = "pop1"
    /\ UNCHANGED <<rkind, tres, rres>>
    /\ UNCHANGED <<chanVars, sndVars, coVars, histVars>>
    /\ api' = "recv"
    /\ UNCHANGED <<inext, dropped_blockers, destroyed>>
    /\ UNCHANGED ioVars

\* Receiver::try_recv is called
TryRecvStart ==
    /\ rpc = "idle"
    /\ Runnable
    /\ rpc' = "tryrecv"
    /\ tpc' = "pop1"
    /\ UNCHANGED <<rkind, tres, rres>>
    /\ UNCHANGED <<chanVars, sndVars, coVars, histVars>>
    /\ api' = "try_recv"
    /\ UNCHANGED <<inext, dropped_blockers, destroyed>>
    /\ UNCHANGED ioVars

\* mutant of IterNext: next() of Iter calls try_recv
IterNext_TryRecv ==
    /\ rpc = "idle"
    /\ Runnable
    /\ rpc' = "tryrecv"
    /\ tpc' = "pop1"
    /\ api' = "iter"
    /\ UNCHANGED <<inext, dropped_blockers, destroyed>>
    /\ UNCHANGED <<rkind, tres, rres>>
    /\ UNCHANGED <<chanVars, sndVars, coVars, histVars>>
    /\ UNCHANGED ioVars

\* Iterator for Iter / IntoIter: next() is self.rx.recv().ok()
IterNext ==
    /\ rpc = "idle"
    /\ Runnable
    /\ rpc' = "try1"
    /\ tpc' = "pop1"
    /\ api' = "iter"
    /\ UNCHANGED <<inext, dropped_blockers, destroyed>>
    /\ UNCHANGED <<rkind, tres, rres>>
    /\ UNCHANGED <<chanVars, sndVars, coVars, histVars>>
    /\ UNCHANGED ioVars

\* mutant of TryIterNext: next() of TryIter calls recv
TryIterNext_Recv ==
    /\ rpc = "idle"
    /\ Runnable
    /\ rpc' = "try1"
    /\ tpc' = "pop1"
    /\ api' = "try_iter"
    /\ UNCHANGED <<inext, dropped_blockers, destroyed>>
    /\ UNCHANGED <<rkind, tres, rres>>
    /\ UNCHANGED <<chanVars, sndVars, coVars, histVars>>
    /\ UNCHANGED ioVars

\* Iterator for TryIter: next() is self.rx.try_recv().ok()
TryIterNext ==
    /\ rpc = "idle"
    /\ Runnable
    /\ rpc' = "tryrecv"
    /\ tpc' = "pop1"
    /\ api' = "try_iter"
    /\ UNCHANGED <<inext, dropped_blockers, destroyed>>
    /\ UNCHANGED <<rkind, tres, rres>>
    /\ UNCHANGED <<chanVars, sndVars, coVars, histVars>>
    /\ UNCHANGED ioVars

\* the Receiver is Send: between two calls it is handed from the coroutine to
\* the OS thread or from the OS thread to the coroutine
MoveReceiver(k) ==
    /\ rpc = "idle"
    /\ Runnable
    /\ k /= rkind
    /\ rkind' = k
    /\ co' = IF k = "co" THEN "running" ELSE co
    /\ UNCHANGED <<rpc, tpc, tres, rres, ready, subpc, wait_kernel, token>>
    /\ UNCHANGED <<chanVars, sndVars, histVars, extVars>>
    /\ UNCHANGED ioVars

\* InnerQueue::try_recv: the first self.queue.pop()
TryPop1 ==
    /\ tpc = "pop1"
    /\ Runnable
    /\ IF ~is_empty(queue)
         THEN /\ tres' = Ok(pop_value(queue))
              /\ queue' = pop_rest(queue)
              /\ tpc' = "ret"
         ELSE /\ tpc' = "load"
              /\ UNCHANGED <<tres, queue>>
    /\ UNCHANGED <<wait_co, channels, port_dropped, rkind, rpc, rres>>
    /\ UNCHANGED <<sndVars, coVars, histVars>>
    /\ UNCHANGED extVars
    /\ UNCHANGED ioVars

\* mutant of TryLoad: with no sender left, Disconnected without the second pop
TryLoad_NoRecheck ==
    /\ tpc = "load"
    /\ Runnable
    /\ tres' = IF channels > 0 THEN Empty ELSE Disconnected
    /\ tpc' = "ret"
    /\ UNCHANGED <<rkind, rpc, rres>>
    /\ UNCHANGED <<chanVars, sndVars, coVars, histVars>>
    /\ UNCHANGED extVars
    /\ UNCHANGED ioVars

\* mutant of TryLoad: the test of channels is inverted
TryLoad_Inverted ==
    /\ tpc = "load"
    /\ Runnable
    /\ IF channels = 0
         THEN /\ tres' = Empty
              /\ tpc' = "ret"
         ELSE /\ tpc' = "pop2"
              /\ UNCHANGED tres
    /\ UNCHANGED <<rkind, rpc, rres>>
    /\ UNCHANGED <<chanVars, sndVars, coVars, histVars>>
    /\ UNCHANGED extVars
    /\ UNCHANGED ioVars

\* InnerQueue::try_recv: the load of channels
TryLoad ==
    /\ tpc = "load"
    /\ Runnable
    /\ IF channels > 0
         THEN /\ tres' = Empty
              /\ tpc' = "ret"
         ELSE /\ tpc' = "pop2"
              /\ UNCHANGED tres
    /\ UNCHANGED <<rkind, rpc, rres>>
    /\ UNCHANGED <<chanVars, sndVars, coVars, histVars>>
    /\ UNCHANGED extVars
    /\ UNCHANGED ioVars

\* InnerQueue::try_recv: self.queue.pop().ok_or(Disconnected)
TryPop2 ==
    /\ tpc = "pop2"
    /\ Runnable
    /\ IF ~is_empty(queue)
         THEN /\ tres' = Ok(pop_value(queue))
              /\ queue' = pop_rest(queue)
         ELSE /\ tres' = Disconnected
              /\ UNCHANGED queue
    /\ tpc' = "ret"
    /\ UNCHANGED <<wait_co, channels, port_dropped, rkind, rpc, rres>>
    /\ UNCHANGED <<sndVars, coVars, histVars>>
    /\ UNCHANGED extVars
    /\ UNCHANGED ioVars

\* Receiver::try_recv returns what InnerQueue::try_recv returned
TryRecvRet ==
    /\ rpc = "tryrecv"
    /\ tpc = "ret"
    /\ Runnable
    /\ rres' = tres
    /\ received' = IF tres.tag = "Ok" THEN Append(received, tres.val) ELSE received
    /\ rpc' = "idle"
    /\ tpc' = "none"
    /\ UNCHANGED <<rkind, tres, sent>>
    /\ UNCHANGED <<chanVars, sndVars, coVars>>
    /\ api' = "none"
    /\ inext' = IF api \in {"iter", "try_iter"} THEN ok(tres) ELSE NoResult
    /\ UNCHANGED <<dropped_blockers, destroyed>>
    /\ UNCHANGED ioVars

\* mutant of RecvReturn: no loop, whatever InnerQueue::recv returned is returned
RecvReturn_NoLoop(data) ==
    /\ rres' = IF data.tag = "Ok" THEN data ELSE RecvError
    /\ received' = IF data.tag = "Ok" THEN Append(received, data.val) ELSE received
    /\ rpc' = "idle"
    /\ tpc' = "none"
    /\ api' = "none"
    /\ inext' = IF api \in {"iter", "try_iter"} THEN ok(rres') ELSE NoResult

\* Receiver::recv: the match on what InnerQueue::recv returned
\* (Empty: loop; else return data.map_err(|_| RecvError))
RecvReturn(data) ==
    IF data.tag = "Empty"
      THEN /\ rpc' = "try1"
           /\ tpc' = "pop1"
           /\ UNCHANGED <<rres, received, api, inext>>
      ELSE /\ rres' = IF data.tag = "Ok" THEN data ELSE RecvError
           /\ received' = IF data.tag = "Ok" THEN Append(received, data.val) ELSE received
           /\ rpc' = "idle"
           /\ tpc' = "none"
           /\ api' = "none"
           /\ inext' = IF api \in {"iter", "try_iter"} THEN ok(rres') ELSE NoResult

\* InnerQueue::recv: the match on the first try_recv
Try1Ret ==
    /\ rpc = "try1"
    /\ tpc = "ret"
    /\ Runnable
    /\ IF tres.tag = "Empty"
         THEN /\ rpc' = IF rkind = "co" THEN "yield" ELSE "store"
              /\ tpc' = "none"
              /\ UNCHANGED <<rres, received, api, inext>>
         ELSE RecvReturn(tres)
    /\ UNCHANGED <<rkind, tres, sent>>
    /\ UNCHANGED <<chanVars, sndVars, coVars>>
    /\ UNCHANGED <<dropped_blockers, destroyed>>
    /\ UNCHANGED ioVars

\* InnerQueue::recv, OS thread: unsync_store(Blocker::new_thread(current()))
ThStore ==
    /\ rpc = "store"
    /\ wait_co' = new_thread(ThreadHandle)
    /\ rpc' = "try2"
    /\ tpc' = "pop1"
    /\ UNCHANGED <<queue, channels, port_dropped, rkind, tres, rres>>
    /\ UNCHANGED <<sndVars, coVars, histVars>>
    /\ drop_blocker(wait_co)
    /\ UNCHANGED <<api, inext, destroyed>>
    /\ UNCHANGED ioVars

\* mutant of Try2Ret: the result of the second try_recv is ignored, the thread parks
Try2Ret_IgnoresData ==
    /\ rpc = "try2"
    /\ tpc = "ret"
    /\ rpc' = "park"
    /\ tpc' = "none"
    /\ UNCHANGED <<rkind, tres, rres>>
    /\ UNCHANGED <<chanVars, sndVars, coVars, histVars>>
    /\ UNCHANGED extVars
    /\ UNCHANGED ioVars

\* InnerQueue::recv, OS thread: the match on the second try_recv
Try2Ret ==
    /\ rpc = "try2"
    /\ tpc = "ret"
    /\ rpc' = IF tres.tag = "Empty" THEN "park" ELSE "clear"
    /\ tpc' = "none"
    /\ UNCHANGED <<rkind, tres, rres>>
    /\ UNCHANGED <<chanVars, sndVars, coVars, histVars>>
    /\ UNCHANGED extVars
    /\ UNCHANGED ioVars

\* InnerQueue::recv, OS thread: self.wait_co.clear(); return data
ThClear ==
    /\ rpc = "clear"
    /\ wait_co' = 0
    /\ RecvReturn(tres)
    /\ UNCHANGED <<queue, channels, port_dropped, rkind, tres, sent>>
    /\ UNCHANGED <<sndVars, coVars>>
    /\ drop_blocker(wait_co)
    /\ UNCHANGED destroyed
    /\ UNCHANGED ioVars

\* std::thread::park returns, consuming the token an unpark left
ThPark ==
    /\ rpc = "park"
    /\ token
    /\ token' = FALSE
    /\ rpc' = "try3"
    /\ tpc' = "pop1"
    /\ UNCHANGED <<rkind, tres, rres, co, ready, subpc, wait_kernel>>
    /\ UNCHANGED <<chanVars, sndVars, histVars>>
    /\ UNCHANGED extVars
    /\ UNCHANGED ioVars

\* std::thread::park returns without an unpark (it may wake spuriously)
ThParkSpurious ==
    /\ rpc = "park"
    /\ ~token
    /\ rpc' = "try3"
    /\ tpc' = "pop1"
    /\ UNCHANGED <<rkind, tres, rres>>
    /\ UNCHANGED <<chanVars, sndVars, coVars, histVars>>
    /\ UNCHANGED extVars
    /\ UNCHANGED ioVars

\* InnerQueue::recv: the final self.try_recv() returns to Receiver::recv
Try3Ret ==
    /\ rpc = "try3"
    /\ tpc = "ret"
    /\ Runnable
    /\ RecvReturn(tres)
    /\ UNCHANGED <<rkind, tres, sent>>
    /\ UNCHANGED <<chanVars, sndVars, coVars>>
    /\ UNCHANGED <<dropped_blockers, destroyed>>
    /\ UNCHANGED ioVars

----------------------------------------------------------------------------
\* Receiver, coroutine path: Park, yield_with, subscribe

\* InnerQueue::recv, coroutine: Park::new(self); yield_with(&park) swaps the
\* coroutine out and hands it to the worker, which calls park.subscribe(co)
CoYield ==
    /\ rpc = "yield"
    /\ co = "running"
    /\ wait_kernel' = TRUE
    /\ co' = "suspended"
    /\ subpc' = "store"
    /\ rpc' = "parked"
    /\ UNCHANGED <<rkind, tpc, tres, rres, ready, token>>
    /\ UNCHANGED <<chanVars, sndVars, histVars>>
    /\ UNCHANGED extVars
    /\ UNCHANGED ioVars

\* Park::subscribe: wait_co.unsync_store(Blocker::new_coroutine(co))
SubStore ==
    /\ subpc = "store"
    /\ wait_co' = new_coroutine(CoHandle)
    /\ subpc' = "check"
    /\ UNCHANGED <<queue, channels, port_dropped, co, ready, wait_kernel, token>>
    /\ UNCHANGED <<sndVars, rcvVars, histVars>>
    /\ drop_blocker(wait_co)
    /\ UNCHANGED <<api, inext, destroyed>>
    /\ UNCHANGED ioVars

\* mutant of SubCheck: subscribe publishes the Blocker and does not re-check
SubCheck_NoRecheck ==
    /\ subpc = "check"
    /\ subpc' = "guard"
    /\ UNCHANGED <<co, ready, wait_kernel, token>>
    /\ UNCHANGED <<chanVars, sndVars, rcvVars, histVars>>
    /\ UNCHANGED extVars
    /\ UNCHANGED ioVars

\* Park::subscribe: the re-check  if !self.queue.queue.is_empty()
SubCheck ==
    /\ subpc = "check"
    /\ subpc' = IF ~is_empty(queue) THEN "take" ELSE "guard"
    /\ UNCHANGED <<co, ready, wait_kernel, token>>
    /\ UNCHANGED <<chanVars, sndVars, rcvVars, histVars>>
    /\ UNCHANGED extVars
    /\ UNCHANGED ioVars

\* Park::subscribe: if let Some(co) = wait_co.take() { run_coroutine(co.into_coroutine()) }
\* run_coroutine resumes the coroutine on this worker, inside subscribe
SubTake ==
    /\ subpc = "take"
    /\ wait_co' = take_rest(wait_co)
    /\ IF take_value(wait_co) /= 0
         THEN /\ co' = "running"
              /\ subpc' = "nested"
         ELSE /\ subpc' = "guard"
              /\ UNCHANGED co
    /\ UNCHANGED <<queue, channels, port_dropped, ready, wait_kernel, token>>
    /\ UNCHANGED <<sndVars, rcvVars, histVars>>
    /\ UNCHANGED extVars
    /\ UNCHANGED ioVars

\* mutant of SubGuard: subscribe returns without the DropGuard clearing wait_kernel
SubGuard_NoClear ==
    /\ subpc = "guard"
    /\ subpc' = "none"
    /\ UNCHANGED <<co, ready, token, wait_kernel>>
    /\ UNCHANGED <<chanVars, sndVars, rcvVars, histVars>>
    /\ UNCHANGED extVars
    /\ UNCHANGED ioVars

\* Park::subscribe returns: Drop for DropGuard stores false into wait_kernel
SubGuard ==
    /\ subpc = "guard"
    /\ wait_kernel' = FALSE
    /\ subpc' = "none"
    /\ UNCHANGED <<co, ready, token>>
    /\ UNCHANGED <<chanVars, sndVars, rcvVars, histVars>>
    /\ UNCHANGED extVars
    /\ UNCHANGED ioVars

\* a worker pops the coroutine from the ready queue and resumes it
Resume ==
    /\ ready > 0
    /\ co = "suspended"
    /\ ready' = ready - 1
    /\ co' = "running"
    /\ UNCHANGED <<subpc, wait_kernel, token>>
    /\ UNCHANGED <<chanVars, sndVars, rcvVars, histVars>>
    /\ UNCHANGED extVars
    /\ UNCHANGED ioVars

\* mutant of ParkDrop: the destructor of Park returns without looking at wait_kernel
ParkDrop_NoWait ==
    /\ rpc = "parked"
    /\ co = "running"
    /\ rpc' = "try3"
    /\ tpc' = "pop1"
    /\ UNCHANGED <<co, ready, subpc>>
    /\ UNCHANGED <<rkind, tres, rres, wait_kernel, token>>
    /\ UNCHANGED <<chanVars, sndVars, histVars>>
    /\ UNCHANGED extVars
    /\ UNCHANGED ioVars

\* Drop for Park, run by the resumed coroutine: while wait_kernel { yield_now() };
\* yield_now puts the coroutine back on the ready queue and returns to the worker
\* (to subscribe, when the coroutine was resumed by run_coroutine inside it)
ParkDrop ==
    /\ rpc = "parked"
    /\ co = "running"
    /\ IF wait_kernel
         THEN /\ co' = "suspended"
              /\ ready' = ready + 1
              /\ subpc' = IF subpc = "nested" THEN "guard" ELSE subpc
              /\ UNCHANGED <<rpc, tpc>>
         ELSE /\ rpc' = "try3"
              /\ tpc' = "pop1"
              /\ UNCHANGED <<co, ready, subpc>>
    /\ UNCHANGED <<rkind, tres, rres, wait_kernel, token>>
    /\ UNCHANGED <<chanVars, sndVars, histVars>>
    /\ UNCHANGED extVars
    /\ UNCHANGED ioVars

----------------------------------------------------------------------------
\* Drop for Receiver

\* InnerQueue::drop_port: the store of port_dropped
DropPortStore ==
    /\ rpc = "idle"
    /\ Runnable
    /\ port_dropped' = TRUE
    /\ rpc' = "drain"
    /\ UNCHANGED <<queue, wait_co, channels, rkind, tpc, tres, rres>>
    /\ UNCHANGED <<sndVars, coVars, histVars>>
    /\ UNCHANGED extVars
    /\ UNCHANGED ioVars

\* InnerQueue::drop_port: while self.queue.pop().is_some() {}
DropPortDrain ==
    /\ rpc = "drain"
    /\ Runnable
    /\ IF ~is_empty(queue)
         THEN /\ queue' = pop_rest(queue)
              /\ UNCHANGED rpc
         ELSE /\ rpc' = "dropped"
              /\ UNCHANGED queue
    /\ UNCHANGED <<wait_co, channels, port_dropped, rkind, tpc, tres, rres>>
    /\ UNCHANGED <<sndVars, coVars, histVars>>
    /\ UNCHANGED extVars
    /\ UNCHANGED ioVars

\* both ends are dropped: the last Arc<InnerQueue> goes and the InnerQueue is
\* destroyed, wait_co with what it holds
DestroyQueue ==
    /\ spc = "dropped"
    /\ rpc = "dropped"
    /\ ~destroyed
    /\ destroyed' = TRUE
    /\ drop_blocker(wait_co)
    /\ wait_co' = 0
    /\ queue' = <<>>
    /\ UNCHANGED <<channels, port_dropped, api, inext>>
    /\ UNCHANGED <<sndVars, rcvVars, coVars, histVars>>
    /\ UNCHANGED ioVars

----------------------------------------------------------------------------
SenderStep == SendCheck \/ SendPush \/ SendTake \/ DropChanTake

TryRecvStep == TryPop1 \/ TryLoad \/ TryPop2

ReceiverStep ==
    \/ TryRecvStep \/ TryRecvRet \/ Try1Ret \/ ThStore \/ Try2Ret \/ ThClear
    \/ ThPark \/ Try3Ret \/ CoYield \/ ParkDrop \/ DropPortDrain

\* the worker that runs Park::subscribe
SubscribeStep == SubStore \/ SubCheck \/ SubTake \/ SubGuard

WorkerStep == SubscribeStep \/ Resume

Next ==
    \/ SendStart \/ SendCheck \/ SendPush \/ SendTake \/ DropChanStore \/ DropChanTake
    \/ RecvStart \/ TryRecvStart \/ TryPop1 \/ TryLoad \/ TryPop2 \/ TryRecvRet
    \/ Try1Ret \/ ThStore \/ Try2Ret \/ ThClear \/ ThPark \/ ThParkSpurious \/ Try3Ret
    \/ CoYield \/ SubStore \/ SubCheck \/ SubTake \/ SubGuard \/ Resume \/ ParkDrop
    \/ DropPortStore \/ DropPortDrain
    \/ IterNext \/ TryIterNext \/ \E k \in {"co", "thread"} : MoveReceiver(k)
    \/ DestroyQueue

Spec == Init /\ [][Next]_vars

\* The sender's thread, the receiver's thread or coroutine, the worker inside
\* subscribe and the workers that pop the ready queue keep running: a step of
\* the code that can be taken is eventually taken.  Calling send, recv, try_recv
\* or dropping an end is the caller's choice, and a spurious return of
\* thread::park is not promised.
FairSpec ==
    /\ Spec
    /\ WF_vars(SenderStep)
    /\ WF_vars(ReceiverStep)
    /\ WF_vars(SubscribeStep)
    /\ WF_vars(Resume)

----------------------------------------------------------------------------
\* I/O: SocketWrite::subscribe, the completion port, the timer wheel, Selector::select

chanCore == <<chanVars, sndVars, rcvVars, coVars, histVars, extVars>>
chanAll == <<chanCore, splitVars>>

\* status words an operation can complete with when it is not cancelled
CompletionStatuses == {NO_ERROR, ERROR_NETNAME_DELETED}

\* Selector::add_io_timer: with a timeout, a TimerData entry is added to the
\* timer wheel and its handle kept in EventData.timer
add_io_timer(t, timeout) ==
    /\ ev_timer' = [ev_timer EXCEPT ![t] = timeout]
    /\ timers' = IF timeout THEN timers \cup {t} ELSE timers

\* Scheduler::schedule_io / Scheduler::schedule of coroutine c
schedule_io(c) == wakes' = [wakes EXCEPT ![c] = @ + 1]

\* SocketWrite::subscribe: get_selector().add_io_timer(&mut self.io_data, self.timeout)
IoAddTimer(t, timeout) ==
    /\ io_panic = "none"
    /\ io_state[t] = "new"
    /\ add_io_timer(t, timeout)
    /\ io_state' = [io_state EXCEPT ![t] = "timer"]
    /\ UNCHANGED <<ev_co, ev_status, port, events, idx, selpc, selres, co_para, wakes,
                   sel_sched, io_panic>>
    /\ UNCHANGED <<expired, fired>>
    /\ UNCHANGED toVars
    /\ UNCHANGED poll_res
    /\ UNCHANGED <<add_io_last, blVars>>
    /\ UNCHANGED chanAll

\* SocketWrite::subscribe: self.io_data.co.swap(co, Release)
IoPublish(t) ==
    /\ io_panic = "none"
    /\ io_state[t] = "timer"
    /\ ev_co' = [ev_co EXCEPT ![t] = t]
    /\ io_state' = [io_state EXCEPT ![t] = "published"]
    /\ UNCHANGED <<ev_timer, ev_status, timers, port, events, idx, selpc, selres, co_para,
                   wakes, sel_sched, io_panic>>
    /\ UNCHANGED <<expired, fired>>
    /\ UNCHANGED toVars
    /\ UNCHANGED poll_res
    /\ UNCHANGED <<add_io_last, blVars>>
    /\ UNCHANGED chanAll

\* mutant of IoWriteOk: the write is issued before the coroutine is published
IoWriteOk_BeforePublish(t) ==
    /\ io_panic = "none"
    /\ io_state[t] = "timer"
    /\ io_state' = [io_state EXCEPT ![t] = "inflight"]
    /\ UNCHANGED <<ev_co, ev_timer, ev_status, timers, port, events, idx, selpc, selres,
                   co_para, wakes, sel_sched, io_panic>>
    /\ UNCHANGED <<expired, fired>>
    /\ UNCHANGED toVars
    /\ UNCHANGED poll_res
    /\ UNCHANGED <<add_io_last, blVars>>
    /\ UNCHANGED chanAll

\* SocketWrite::subscribe: write_overlapped returns Ok, the operation is in flight
IoWriteOk(t) ==
    /\ io_panic = "none"
    /\ io_state[t] = "published"
    /\ io_state' = [io_state EXCEPT ![t] = "inflight"]
    /\ UNCHANGED <<ev_co, ev_timer, ev_status, timers, port, events, idx, selpc, selres,
                   co_para, wakes, sel_sched, io_panic>>
    /\ UNCHANGED <<expired, fired>>
    /\ UNCHANGED toVars
    /\ UNCHANGED poll_res
    /\ UNCHANGED <<add_io_last, blVars>>
    /\ UNCHANGED chanAll

\* mutant of IoWriteErr: the error is dropped and the coroutine left in io_data.co
IoWriteErr_NoSchedule(t, e) ==
    /\ io_panic = "none"
    /\ io_state[t] = "published"
    /\ io_state' = [io_state EXCEPT ![t] = "failed"]
    /\ UNCHANGED <<ev_co, co_para, wakes>>
    /\ UNCHANGED <<ev_timer, ev_status, timers, port, events, idx, selpc, selres,
                   sel_sched, io_panic>>
    /\ UNCHANGED <<expired, fired>>
    /\ UNCHANGED toVars
    /\ UNCHANGED poll_res
    /\ UNCHANGED <<add_io_last, blVars>>
    /\ UNCHANGED chanAll

\* SocketWrite::subscribe: write_overlapped returns Err(e); co_try! takes the
\* coroutine back out of io_data.co, sets the error and schedules it
IoWriteErr(t, e) ==
    /\ io_panic = "none"
    /\ io_state[t] = "published"
    /\ ev_co' = [ev_co EXCEPT ![t] = 0]
    /\ co_para' = [co_para EXCEPT ![ev_co[t]] = OsError(e)]
    /\ schedule_io(ev_co[t])
    /\ io_state' = [io_state EXCEPT ![t] = "failed"]
    /\ UNCHANGED <<ev_timer, ev_status, timers, port, events, idx, selpc, selres,
                   sel_sched, io_panic>>
    /\ UNCHANGED <<expired, fired>>
    /\ UNCHANGED toVars
    /\ UNCHANGED poll_res
    /\ UNCHANGED <<add_io_last, blVars>>
    /\ UNCHANGED chanAll

\* the OS completes an operation in flight and queues its completion on the port
OsComplete(t, status) ==
    /\ io_panic = "none"
    /\ io_state[t] = "inflight"
    /\ ev_status' = [ev_status EXCEPT ![t] = status]
    /\ port' = Append(port, t)
    /\ io_state' = [io_state EXCEPT ![t] = "posted"]
    /\ UNCHANGED <<ev_co, ev_timer, timers, events, idx, selpc, selres, co_para, wakes,
                   sel_sched, io_panic>>
    /\ UNCHANGED <<expired, fired>>
    /\ UNCHANGED toVars
    /\ UNCHANGED poll_res
    /\ UNCHANGED <<add_io_last, blVars>>
    /\ UNCHANGED chanAll

\* time passes: the deadline of the pending timer entry of t is reached
TimerExpire(t) ==
    /\ io_panic = "none"
    /\ t \in timers
    /\ t \notin expired
    /\ expired' = expired \cup {t}
    /\ UNCHANGED <<io_state, ev_co, ev_timer, ev_status, timers, fired, port, events, idx,
                   selpc, selres, co_para, wakes, sel_sched, io_panic>>
    /\ UNCHANGED toVars
    /\ UNCHANGED poll_res
    /\ UNCHANGED <<add_io_last, blVars>>
    /\ UNCHANGED chanAll

\* the timer wheel, run by the thread that calls select between two calls,
\* takes the expired entry of t and calls timeout_handler -> cancel_io ->
\* CancelIoEx.  An operation in flight is aborted and its completion queued;
\* otherwise CancelIoEx fails and timeout_handler panics
TimerFire(t) ==
    /\ io_panic = "none"
    /\ selpc = "idle"
    /\ t \in timers
    /\ t \in expired
    /\ timers' = timers \ {t}
    /\ fired' = fired \cup {t}
    /\ UNCHANGED expired
    /\ IF io_state[t] = "inflight"
         THEN /\ ev_status' = [ev_status EXCEPT ![t] = ERROR_OPERATION_ABORTED]
              /\ port' = Append(port, t)
              /\ io_state' = [io_state EXCEPT ![t] = "posted"]
              /\ UNCHANGED io_panic
         ELSE /\ io_panic' = "cancel"
              /\ UNCHANGED <<ev_status, port, io_state>>
    /\ UNCHANGED <<ev_co, ev_timer, events, idx, selpc, selres, co_para, wakes, sel_sched>>
    /\ UNCHANGED toVars
    /\ UNCHANGED poll_res
    /\ UNCHANGED <<add_io_last, blVars>>
    /\ UNCHANGED chanAll

\* Selector::select: get_many returns Ok with the n oldest completions
SelectPollOk(n) ==
    /\ io_panic = "none"
    /\ selpc = "idle"
    /\ n \in 1..Len(port)
    /\ events' = SubSeq(port, 1, n)
    /\ port' = SubSeq(port, n + 1, Len(port))
    /\ idx' = 1
    /\ sel_sched' = [c \in Ops |-> 0]
    /\ selpc' = "loop"
    /\ UNCHANGED <<io_state, ev_co, ev_timer, ev_status, timers, selres, co_para, wakes,
                   io_panic>>
    /\ UNCHANGED <<expired, fired>>
    /\ UNCHANGED toVars
    /\ poll_res' = "Ok"
    /\ UNCHANGED <<add_io_last, blVars>>
    /\ UNCHANGED chanAll

\* mutant of SelectPollTimeout: WAIT_TIMEOUT is returned as an error like any other
SelectPollTimeout_AsError ==
    /\ io_panic = "none"
    /\ selpc = "idle"
    /\ port = <<>>
    /\ poll_res /= "WAIT_TIMEOUT"
    /\ poll_res' = "WAIT_TIMEOUT"
    /\ selres' = "Err"
    /\ UNCHANGED <<io_state, ev_co, ev_timer, ev_status, timers, port, events, idx, selpc,
                   co_para, wakes, sel_sched, io_panic>>
    /\ UNCHANGED <<expired, fired>>
    /\ UNCHANGED toVars
    /\ UNCHANGED <<add_io_last, blVars>>
    /\ UNCHANGED chanAll

\* Selector::select: get_many fails with WAIT_TIMEOUT, taken as zero events
SelectPollTimeout ==
    /\ io_panic = "none"
    /\ selpc = "idle"
    /\ port = <<>>
    /\ events' = <<>>
    /\ idx' = 1
    /\ sel_sched' = [c \in Ops |-> 0]
    /\ selpc' = "loop"
    /\ UNCHANGED <<io_state, ev_co, ev_timer, ev_status, timers, port, selres, co_para,
                   wakes, io_panic>>
    /\ UNCHANGED <<expired, fired>>
    /\ UNCHANGED toVars
    /\ poll_res' = "WAIT_TIMEOUT"
    /\ UNCHANGED <<add_io_last, blVars>>
    /\ UNCHANGED chanAll

\* Selector::select: get_many fails with another error, select returns Err(e)
SelectPollErr ==
    /\ io_panic = "none"
    /\ selpc = "idle"
    /\ selres /= "Err"
    /\ selres' = "Err"
    /\ UNCHANGED <<io_state, ev_co, ev_timer, ev_status, timers, port, events, idx, selpc,
                   co_para, wakes, sel_sched, io_panic>>
    /\ UNCHANGED <<expired, fired>>
    /\ UNCHANGED toVars
    /\ UNCHANGED poll_res
    /\ UNCHANGED <<add_io_last, blVars>>
    /\ UNCHANGED chanAll

\* mutant of status_para: a cancelled operation is reported with its raw
\* status word
status_para_AbortedAsOsError(status, cur) ==
    IF status = NO_ERROR THEN cur ELSE OsError(status)

\* mutant of status_para: a successful completion is reported as a timeout
status_para_SuccessAsTimeout(status, cur) ==
    IF status = ERROR_OPERATION_ABORTED \/ status = NO_ERROR THEN TimedOut
    ELSE OsError(status)

\* Selector::select, the match on overlapped.Internal: the value the parameter
\* slot of the coroutine holds afterwards, cur being what it held before
status_para(status, cur) ==
    IF status = ERROR_OPERATION_ABORTED THEN TimedOut
    ELSE IF status = NO_ERROR THEN cur
    ELSE OsError(status)

\* Selector::select: data.timer.take().map(|h| h.remove()) stands in the
\* ERROR_OPERATION_ABORTED arm of the match only
takes_timer(status) == status = ERROR_OPERATION_ABORTED

\* mutant of SelectEvent: the coroutine is read from the EventData and left in it
SelectEvent_NoTake ==
    /\ io_panic = "none"
    /\ selpc = "loop"
    /\ idx <= Len(events)
    /\ LET t == events[idx]
           c == ev_co[t]
       IN IF c = 0
            THEN /\ io_panic' = "unwrap"
                 /\ UNCHANGED <<io_state, ev_timer, timers, idx, co_para, wakes, sel_sched>>
            ELSE /\ co_para' = [co_para EXCEPT ![c] = status_para(ev_status[t], @)]
                 /\ IF takes_timer(ev_status[t])
                      THEN /\ ev_timer' = [ev_timer EXCEPT ![t] = FALSE]
                           /\ timers' = timers \ {t}
                      ELSE UNCHANGED <<ev_timer, timers>>
                 /\ schedule_io(c)
                 /\ sel_sched' = [sel_sched EXCEPT ![c] = @ + 1]
                 /\ io_state' = [io_state EXCEPT ![t] = "done"]
                 /\ idx' = idx + 1
                 /\ UNCHANGED io_panic
    /\ UNCHANGED <<ev_co, ev_status, port, events, selpc, selres>>
    /\ UNCHANGED <<expired, fired>>
    /\ UNCHANGED toVars
    /\ UNCHANGED poll_res
    /\ UNCHANGED <<add_io_last, blVars>>
    /\ UNCHANGED chanAll

\* Selector::select: one turn of the loop over events[..n]: take the coroutine
\* out of the EventData (unwrap), decode the status word, schedule_io(co)
SelectEvent ==
    /\ io_panic = "none"
    /\ selpc = "loop"
    /\ idx <= Len(events)
    /\ LET t == events[idx]
           c == ev_co[t]
       IN IF c = 0
            THEN /\ io_panic' = "unwrap"
                 /\ UNCHANGED <<io_state, ev_co, ev_timer, timers, idx, co_para, wakes,
                                sel_sched>>
            ELSE /\ ev_co' = [ev_co EXCEPT ![t] = 0]
                 /\ co_para' = [co_para EXCEPT ![c] = status_para(ev_status[t], @)]
                 /\ IF takes_timer(ev_status[t])
                      THEN /\ ev_timer' = [ev_timer EXCEPT ![t] = FALSE]
                           /\ timers' = timers \ {t}
                      ELSE UNCHANGED <<ev_timer, timers>>
                 /\ schedule_io(c)
                 /\ sel_sched' = [sel_sched EXCEPT ![c] = @ + 1]
                 /\ io_state' = [io_state EXCEPT ![t] = "done"]
                 /\ idx' = idx + 1
                 /\ UNCHANGED io_panic
    /\ UNCHANGED <<ev_status, port, events, selpc, selres>>
    /\ UNCHANGED <<expired, fired>>
    /\ UNCHANGED toVars
    /\ UNCHANGED poll_res
    /\ UNCHANGED <<add_io_last, blVars>>
    /\ UNCHANGED chanAll

\* mutant of SelectReturn: before it returns, select takes the expired entries
\* out of the timer wheel and calls their callback
SelectReturn_RunsTimers ==
    /\ io_panic = "none"
    /\ selpc = "loop"
    /\ idx > Len(events)
    /\ selres' = "Ok"
    /\ selpc' = "idle"
    /\ events' = <<>>
    /\ idx' = 1
    /\ sel_sched' = [c \in Ops |-> 0]
    /\ timers' = timers \ expired
    /\ fired' = fired \cup (timers \cap expired)
    /\ UNCHANGED <<io_state, ev_co, ev_timer, ev_status, expired, port, co_para, wakes,
                   io_panic>>
    /\ UNCHANGED toVars
    /\ poll_res' = "none"
    /\ UNCHANGED <<add_io_last, blVars>>
    /\ UNCHANGED chanAll

\* Selector::select: the loop is over, select returns Ok(())
SelectReturn ==
    /\ io_panic = "none"
    /\ selpc = "loop"
    /\ idx > Len(events)
    /\ selres' = "Ok"
    /\ selpc' = "idle"
    /\ events' = <<>>
    /\ idx' = 1
    /\ sel_sched' = [c \in Ops |-> 0]
    /\ UNCHANGED <<io_state, ev_co, ev_timer, ev_status, timers, port, co_para, wakes,
                   io_panic>>
    /\ UNCHANGED <<expired, fired>>
    /\ UNCHANGED toVars
    /\ poll_res' = "none"
    /\ UNCHANGED <<add_io_last, blVars>>
    /\ UNCHANGED chanAll

\* mutant of AddIo: add_io registers the EventData, which queues an event for it
AddIo_Registers(t) ==
    /\ io_panic = "none"
    /\ add_io_last /= t
    /\ add_io_last' = t
    /\ port' = Append(port, t)
    /\ UNCHANGED <<io_state, ev_co, ev_timer, ev_status, timers, expired, fired, events,
                   idx, selpc, selres, co_para, wakes, sel_sched, io_panic>>
    /\ UNCHANGED toVars
    /\ UNCHANGED poll_res
    /\ UNCHANGED blVars
    /\ UNCHANGED chanAll

\* Selector::add_io(io) on the EventData of t: returns Ok(())
AddIo(t) ==
    /\ io_panic = "none"
    /\ add_io_last /= t
    /\ add_io_last' = t
    /\ UNCHANGED <<io_state, ev_co, ev_timer, ev_status, timers, expired, fired, port,
                   events, idx, selpc, selres, co_para, wakes, sel_sched, io_panic>>
    /\ UNCHANGED toVars
    /\ UNCHANGED poll_res
    /\ UNCHANGED blVars
    /\ UNCHANGED chanAll

IoNext ==
    \/ \E t \in Ops : AddIo(t)
    \/ \E t \in Ops, timeout \in BOOLEAN : IoAddTimer(t, timeout)
    \/ \E t \in Ops : IoPublish(t)
    \/ \E t \in Ops : IoWriteOk(t)
    \/ \E t \in Ops : IoWriteErr(t, ERROR_NETNAME_DELETED)
    \/ \E t \in Ops, status \in CompletionStatuses : OsComplete(t, status)
    \/ \E t \in Ops : TimerExpire(t)
    \/ \E t \in Ops : TimerFire(t)
    \/ \E n \in 1..NOps : SelectPollOk(n)
    \/ SelectPollTimeout
    \/ SelectPollErr
    \/ SelectEvent
    \/ SelectReturn

IoSpec == Init /\ [][IoNext]_vars

----------------------------------------------------------------------------
\* Selector::select: the conversion of the timeout argument

U32_MAX == 2 ^ U32Bits - 1
U64_MAX == 2 ^ U64Bits - 1

Min(a, b) == IF a <= b THEN a ELSE b

\* timeout_list::ns_to_ms: nanoseconds to whole milliseconds, rounded up
ns_to_ms(ns) == (ns + NanosPerMilli - 1) \div NanosPerMilli

\* the cast  as u32  of a u64
as_u32(x) == x % (2 ^ U32Bits)

\* mutant of select_timeout: the milliseconds are cast to u32 without the min
select_timeout_NoClamp(to) ==
    IF to.some THEN OptSome(as_u32(ns_to_ms(to.val))) ELSE OptNone

\* timeout.map(|to| cmp::min(ns_to_ms(to), u32::MAX as u64) as u32)
select_timeout(to) ==
    IF to.some THEN OptSome(as_u32(Min(ns_to_ms(to.val), U32_MAX))) ELSE OptNone

\* the timeouts select can be called with
TimeoutArgs == {OptNone} \cup {OptSome(ns) : ns \in 0..U64_MAX}

\* Selector::select is called with timeout to and converts it for get_many
SelectTimeout(to) ==
    /\ timeout_arg' = to
    /\ port_wait' = select_timeout(to)
    /\ UNCHANGED poll_res
    /\ UNCHANGED <<add_io_last, blVars>>
    /\ UNCHANGED <<io_state, ev_co, ev_timer, ev_status, timers, expired, fired, port,
                   events, idx, selpc, selres, co_para, wakes, sel_sched, io_panic>>
    /\ UNCHANGED chanAll

TimeoutNext == \E to \in TimeoutArgs : SelectTimeout(to)

TimeoutSpec == Init /\ [][TimeoutNext]_vars

----------------------------------------------------------------------------
\* Blocker: the encoding, for every handle word

\* handle words: pointers, low bit 0
Handles == {h \in 2..MaxHandle : h % 2 = 0}

\* Blocker::new_coroutine(h) or Blocker::new_thread(h)
BlockerNew(k, h) ==
    /\ bl_stage = "none"
    /\ bl_kind' = k
    /\ bl_handle' = h
    /\ bl_word' = IF k = "co" THEN new_coroutine(h) ELSE new_thread(h)
    /\ bl_stage' = "made"
    /\ UNCHANGED <<bl_out, add_io_last>>
    /\ UNCHANGED <<io_state, ev_co, ev_timer, ev_status, timers, expired, fired, port,
                   events, idx, selpc, selres, co_para, wakes, sel_sched, io_panic>>
    /\ UNCHANGED toVars
    /\ UNCHANGED poll_res
    /\ UNCHANGED chanAll

\* Blocker::into_coroutine / Blocker::into_thread: the handle, and
\* mem::forget(self), so Drop for Blocker does not run
BlockerInto ==
    /\ bl_stage = "made"
    /\ bl_out' = IF bl_kind = "co" THEN into_coroutine(bl_word) ELSE into_thread(bl_word)
    /\ bl_word' = 0
    /\ bl_stage' = "into"
    /\ UNCHANGED <<bl_kind, bl_handle, add_io_last>>
    /\ UNCHANGED <<io_state, ev_co, ev_timer, ev_status, timers, expired, fired, port,
                   events, idx, selpc, selres, co_para, wakes, sel_sched, io_panic>>
    /\ UNCHANGED toVars
    /\ UNCHANGED poll_res
    /\ UNCHANGED chanAll

\* Blocker::unpark(self): dispatch on the low bit, into_coroutine + schedule or
\* into_thread + Thread::unpark
BlockerUnpark ==
    /\ bl_stage = "made"
    /\ unpark(bl_word)
    /\ bl_out' = IF IsCoroutineBlocker(bl_word) THEN into_coroutine(bl_word)
                 ELSE into_thread(bl_word)
    /\ bl_word' = 0
    /\ bl_stage' = "unparked"
    /\ UNCHANGED <<bl_kind, bl_handle, add_io_last>>
    /\ UNCHANGED <<io_state, ev_co, ev_timer, ev_status, timers, expired, fired, port,
                   events, idx, selpc, selres, co_para, wakes, sel_sched, io_panic>>
    /\ UNCHANGED toVars
    /\ UNCHANGED poll_res
    /\ UNCHANGED <<chanVars, sndVars, rcvVars, co, subpc, wait_kernel, histVars, extVars>>
    /\ UNCHANGED splitVars

BlockerNext ==
    \/ \E k \in {"co", "thread"}, h \in Handles : BlockerNew(k, h)
    \/ BlockerInto
    \/ BlockerUnpark

BlockerSpec == Init /\ [][BlockerNext]_vars

----------------------------------------------------------------------------
\* SplitReader / SplitWriter

\* what a stream of the wrapped type T holds: avail bytes still to read,
\* buffered bytes written and not flushed, flushed bytes, and whether it has failed
Streams ==
    [id : 1..NStreams, avail : 0..MaxBytes, buffered : {0}, flushed : {0},
     broken : BOOLEAN]

\* T::read into a buffer of n bytes
inner_read(io, n) ==
    IF io.broken THEN [res |-> Err(1), io |-> io]
    ELSE LET k == Min(n, io.avail)
         IN [res |-> Ok(k), io |-> [io EXCEPT !.avail = @ - k]]

\* T::write of a buffer of n bytes
inner_write(io, n) ==
    IF io.broken THEN [res |-> Err(1), io |-> io]
    ELSE LET k == Min(n, MaxBytes - (io.buffered + io.flushed))
         IN [res |-> Ok(k), io |-> [io EXCEPT !.buffered = @ + k]]

\* T::flush
inner_flush(io) ==
    IF io.broken THEN [res |-> Err(1), io |-> io]
    ELSE [res |-> Ok(0),
          io |-> [io EXCEPT !.flushed = @ + io.buffered, !.buffered = 0]]

\* SplitReader::new / SplitWriter::new
split_new(io) == [inner |-> io]

\* SplitReader::inner / SplitWriter::inner
inner(w) == w.inner

\* Read for SplitReader: self.inner.read(buf)
SplitReader_read(w, n) ==
    LET r == inner_read(w.inner, n) IN [res |-> r.res, w |-> [inner |-> r.io]]

\* Write for SplitWriter: self.inner.write(buf)
SplitWriter_write(w, n) ==
    LET r == inner_write(w.inner, n) IN [res |-> r.res, w |-> [inner |-> r.io]]

\* mutant of SplitWriter_flush: flush reports success without the call on the inner object
SplitWriter_flush_NoForward(w) == [res |-> Ok(0), w |-> w]

\* Write for SplitWriter: self.inner.flush()
SplitWriter_flush(w) ==
    LET r == inner_flush(w.inner) IN [res |-> r.res, w |-> [inner |-> r.io]]

\* SplitReader::new(io)
SplitReaderNew(io) ==
    /\ split_reader = NoWrapper
    /\ split_reader' = split_new(io)
    /\ bare_reader' = [inner |-> io]
    /\ split_op' = "new"
    /\ split_res' = NoResult
    /\ bare_res' = NoResult
    /\ UNCHANGED <<split_writer, bare_writer>>
    /\ UNCHANGED ioCore
    /\ UNCHANGED chanCore

\* SplitWriter::new(io)
SplitWriterNew(io) ==
    /\ split_writer = NoWrapper
    /\ split_writer' = split_new(io)
    /\ bare_writer' = [inner |-> io]
    /\ split_op' = "new"
    /\ split_res' = NoResult
    /\ bare_res' = NoResult
    /\ UNCHANGED <<split_reader, bare_reader>>
    /\ UNCHANGED ioCore
    /\ UNCHANGED chanCore

\* read on the SplitReader with a buffer of n bytes
SplitRead(n) ==
    /\ split_reader /= NoWrapper
    /\ split_reader' = SplitReader_read(split_reader, n).w
    /\ split_res' = SplitReader_read(split_reader, n).res
    /\ bare_reader' = [inner |-> inner_read(bare_reader.inner, n).io]
    /\ bare_res' = inner_read(bare_reader.inner, n).res
    /\ split_op' = "read"
    /\ UNCHANGED <<split_writer, bare_writer>>
    /\ UNCHANGED ioCore
    /\ UNCHANGED chanCore

\* write on the SplitWriter with a buffer of n bytes
SplitWrite(n) ==
    /\ split_writer /= NoWrapper
    /\ split_writer' = SplitWriter_write(split_writer, n).w
    /\ split_res' = SplitWriter_write(split_writer, n).res
    /\ bare_writer' = [inner |-> inner_write(bare_writer.inner, n).io]
    /\ bare_res' = inner_write(bare_writer.inner, n).res
    /\ split_op' = "write"
    /\ UNCHANGED <<split_reader, bare_reader>>
    /\ UNCHANGED ioCore
    /\ UNCHANGED chanCore

\* flush on the SplitWriter
SplitFlush ==
    /\ split_writer /= NoWrapper
    /\ split_writer' = SplitWriter_flush(split_writer).w
    /\ split_res' = SplitWriter_flush(split_writer).res
    /\ bare_writer' = [inner |-> inner_flush(bare_writer.inner).io]
    /\ bare_res' = inner_flush(bare_writer.inner).res
    /\ split_op' = "flush"
    /\ UNCHANGED <<split_reader, bare_reader>>
    /\ UNCHANGED ioCore
    /\ UNCHANGED chanCore

\* inner() on the SplitReader
SplitReaderInner ==
    /\ split_reader /= NoWrapper
    /\ split_res' = inner(split_reader)
    /\ bare_res' = bare_reader.inner
    /\ split_op' = "reader_inner"
    /\ UNCHANGED <<split_reader, bare_reader, split_writer, bare_writer>>
    /\ UNCHANGED ioCore
    /\ UNCHANGED chanCore

\* inner() on the SplitWriter
SplitWriterInner ==
    /\ split_writer /= NoWrapper
    /\ split_res' = inner(split_writer)
    /\ bare_res' = bare_writer.inner
    /\ split_op' = "writer_inner"
    /\ UNCHANGED <<split_reader, bare_reader, split_writer, bare_writer>>
    /\ UNCHANGED ioCore
    /\ UNCHANGED chanCore

SplitNext ==
    \/ \E io \in Streams : SplitReaderNew(io)
    \/ \E io \in Streams : SplitWriterNew(io)
    \/ \E n \in 0..MaxBuf : SplitRead(n)
    \/ \E n \in 0..MaxBuf : SplitWrite(n)
    \/ SplitFlush
    \/ SplitReaderInner
    \/ SplitWriterInner

SplitSpec == Init /\ [][SplitNext]_vars


\* a step of a call of select that succeeds
SelectStep ==
    \/ \E n \in 1..NOps : SelectPollOk(n)
    \/ SelectPollTimeout
    \/ SelectEvent
    \/ SelectReturn

\* The thread of the selector keeps calling select and each call runs on to
\* its end.  That an operation is started, completes or times out is up to
\* its caller, the peer and the clock.
IoFairSpec == IoSpec /\ WF_vars(SelectStep)

----------------------------------------------------------------------------
\* Properties of the channel

IsPrefix(a, b) == Len(a) <= Len(b) /\ \A i \in 1..Len(a) : a[i] = b[i]

\* try_recv or recv has popped an item that it has not yet returned to its caller
Holding == (tpc = "ret" \/ rpc = "clear") /\ tres.tag = "Ok"

\* the position is inside InnerQueue::send
SendPcs == {"send_check", "send_push", "send_take"}

\* number of places that hold the receiving coroutine's handle: running on a
\* worker, the ready queue, the waiter slot, subscribe's argument before the store
CoPlaces ==
    (IF co = "running" THEN 1 ELSE 0) + ready
    + (IF IsCoroutineBlocker(wait_co) THEN 1 ELSE 0)
    + (IF subpc = "store" THEN 1 ELSE 0)

\* C1: the items returned by recv / try_recv are at every moment a prefix of the
\* items pushed by successful sends, in send order (nothing is duplicated,
\* reordered or invented).
C1_ReceivedPrefixOfSent == IsPrefix(received, sent)

C1_Witness == Len(received) = 2 /\ Len(sent) = 3 /\ queue /= <<>>

\* C2: a send that starts after drop_port has completed returns Err with exactly
\* its argument and changes nothing of the channel: nothing is enqueued, the
\* waiter slot is not taken, nobody is unparked.
C2_SendAfterPortDropFails ==
    [][(sAfterDrop /\ spc \in SendPcs /\ spc' /= spc)
         => /\ spc' = "idle"
            /\ sres' = Err(sval)
            /\ UNCHANGED <<queue, wait_co, channels, port_dropped, ready, token, sent>>]_vars

C2_Witness == sAfterDrop /\ spc = "idle" /\ sres = Err(sval) /\ sval = 2 /\ sent = <<1>>

\* C3: once the Sender has been dropped, a recv in progress is never left with
\* nothing to run: the receiver, or the worker and scheduler that resume it, can
\* always take a step, so the recv returns.
C3_RecvNotStrandedAfterSenderDrop ==
    (spc = "dropped" /\ InRecv) => ENABLED (ReceiverStep \/ WorkerStep)

\* C4: recv and try_recv report disconnection only when every item sent before
\* the Sender was dropped has been received.
C4_DisconnectOnlyAfterDrain ==
    rres.tag \in {"Disconnected", "RecvError"}
        => channels = 0 /\ received = sent /\ (rpc \notin {"drain", "dropped"} => queue = <<>>)

C4_Witness == rres.tag = "Disconnected" /\ received = sent /\ Len(sent) = 2

\* C5: no lost wakeup on send: when an item is at the head of the queue while a
\* blocking recv is in progress that holds no item yet, that recv eventually
\* returns this item, for a coroutine receiver and for an OS-thread receiver.
C5_NoLostWakeupOnSend ==
    \A v \in 1..MaxSend :
        (InRecv /\ ~Holding /\ queue /= <<>> /\ Head(queue) = v)
            ~> (rpc = "idle" /\ rres = Ok(v))

C5_Witness ==
    /\ rpc \in {"park", "parked"}
    /\ wait_co /= 0
    /\ subpc \in {"none", "check"}
    /\ spc = "send_take"
    /\ queue /= <<>>

\* C6: the coroutine's handle is in exactly one place at a time: one taker gets
\* the Blocker, so the coroutine is scheduled at most once per suspension.
C6_CoroutineHandleUnique == rkind = "co" => CoPlaces = 1

C6_Witness == rkind = "co" /\ subpc = "take" /\ wait_co = 0 /\ ready = 1

\* C7: try_recv does not block and returns Ok(head) removing exactly the head
\* when the pop finds an item, Empty when the queue was empty and channels > 0,
\* Disconnected when channels = 0 and the second pop finds nothing; it never
\* changes the waiter slot, channels or port_dropped.
C7_TryRecvContract ==
    /\ [](rpc = "tryrecv" => ENABLED ReceiverStep)
    /\ [][(rpc = "tryrecv" /\ (tpc' /= tpc \/ rpc' /= rpc))
            => /\ UNCHANGED <<wait_co, channels, port_dropped>>
               /\ (tpc \in {"pop1", "pop2"} /\ queue /= <<>>)
                     => (tpc' = "ret" /\ tres' = Ok(Head(queue)) /\ queue' = Tail(queue))
               /\ (tpc \in {"pop1", "pop2"} /\ queue = <<>>) => UNCHANGED queue
               /\ (tpc = "pop1" /\ queue = <<>>) => tpc' = "load"
               /\ (tpc = "load" /\ channels > 0) => (tpc' = "ret" /\ tres' = Empty)
               /\ (tpc = "load" /\ channels = 0) => tpc' = "pop2"
               /\ (tpc = "pop2" /\ queue = <<>>) => (tpc' = "ret" /\ tres' = Disconnected)
               /\ tpc = "ret" => (rpc' = "idle" /\ rres' = tres)]_vars

C7_Witness == rpc = "tryrecv" /\ tpc = "ret" /\ tres.tag = "Ok" /\ channels = 0 /\ sent = <<1, 2>>

\* C8: Receiver::recv returns Ok(v) with v the oldest item not yet received, or
\* Err(RecvError) when the Sender has been dropped and the queue is empty; an
\* Empty inside it (after a spurious or stale wake-up) makes it wait again.
C8_RecvResults ==
    [][(InRecv /\ rpc' /= rpc /\ (rpc' \notin {"store", "try2", "clear", "park", "try3", "yield", "parked"}))
         => \/ /\ rpc' = "try1"
               /\ tres.tag = "Empty"
               /\ UNCHANGED <<rres, received>>
            \/ /\ rpc' = "idle"
               /\ rres'.tag = "Ok"
               /\ Len(received) < Len(sent)
               /\ rres'.val = sent[Len(received) + 1]
               /\ received' = Append(received, rres'.val)
            \/ /\ rpc' = "idle"
               /\ rres' = RecvError
               /\ channels = 0
               /\ queue = <<>>
               /\ UNCHANGED received]_vars

C8_Witness == rpc = "try3" /\ tpc = "ret" /\ tres.tag = "Empty" /\ channels = 1

\* C9: an OS-thread receiver inside a blocking recv when the Sender is dropped
\* is woken: its recv returns, and it returns Err(RecvError) once no item is left.
C9_ThreadRecvWokenBySenderDrop ==
    /\ (rkind = "thread" /\ InRecv /\ channels = 0) ~> ~InRecv
    /\ (rkind = "thread" /\ InRecv /\ channels = 0 /\ queue = <<>> /\ ~Holding)
          ~> (rpc = "idle" /\ rres = RecvError)

C9_Witness == rkind = "thread" /\ rpc = "park" /\ ~token /\ spc = "drop_take" /\ wait_co /= 0

\* the events of the select in progress that the loop has been through
Processed == {events[i] : i \in 1..(idx - 1)}

\* C10: select takes the coroutine out of the EventData of every completion
\* get_many returned (the unwrap never fails, the slot is left empty) and calls
\* schedule_io for it exactly once, and for no other coroutine; so no
\* operation's coroutine is woken twice, and a processed operation's is woken once.
C10_SelectWakesEachEventOnce ==
    /\ io_panic /= "unwrap"
    /\ \A t \in Ops : sel_sched[t] = Cardinality({i \in 1..(idx - 1) : events[i] = t})
    /\ \A t \in Processed : ev_co[t] = 0 /\ io_state[t] = "done"
    /\ \A t \in Ops : wakes[t] <= 1
    /\ \A t \in Ops : io_state[t] = "done" => wakes[t] = 1

C10_Witness ==
    /\ selpc = "loop"
    /\ Len(events) = 2
    /\ idx > Len(events)
    /\ ev_status[events[1]] = ERROR_OPERATION_ABORTED
    /\ ev_status[events[2]] = NO_ERROR

\* C11: when select processes a completion it decodes the status word before
\* it schedules the coroutine: with NO_ERROR the parameter slot is left as it
\* was, with ERROR_OPERATION_ABORTED it holds an io::Error of kind TimedOut,
\* with any other status the raw OS error of that code; in all three cases
\* schedule_io is then called for the coroutine.
C11_SelectDecodesStatus ==
    [][\A t \in Ops :
          (io_state[t] = "posted" /\ io_state'[t] = "done") =>
              LET c == ev_co[t]
              IN /\ c /= 0
                 /\ wakes'[c] = wakes[c] + 1
                 /\ (ev_status[t] = NO_ERROR => co_para'[c] = co_para[c])
                 /\ (ev_status[t] = ERROR_OPERATION_ABORTED => co_para'[c] = TimedOut)
                 /\ (ev_status[t] \notin {NO_ERROR, ERROR_OPERATION_ABORTED}
                        => co_para'[c] = OsError(ev_status[t]))]_vars

C11_Witness ==
    \E t, u \in Ops :
        /\ io_state[t] = "done" /\ co_para[t] = TimedOut /\ wakes[t] = 1
        /\ io_state[u] = "done" /\ co_para[u] = OsError(ERROR_NETNAME_DELETED)
        /\ wakes[u] = 1

\* C12: whatever the status of a completion select has processed, the
\* EventData's timer handle has been taken and its entry removed from the timer
\* wheel by the time the coroutine is scheduled.
C12_TimerRemovedOnEveryCompletion ==
    \A t \in Ops : io_state[t] = "done" => (~ev_timer[t] /\ t \notin timers)

TimerSecond(t) ==
    /\ t \in fired
    /\ io_state[t] \in {"posted", "done"}
    /\ ev_status[t] /= ERROR_OPERATION_ABORTED

\* C14: when the completion of an operation and the expiry of its timer both
\* happen, the side that comes second has no effect: it does not panic and the
\* coroutine is not scheduled a second time.
C14_SecondSideHasNoEffect ==
    \A t \in Ops : TimerSecond(t) => (io_panic = "none" /\ wakes[t] <= 1)

\* C15: an operation whose timer fires before it completes is cancelled, its
\* ERROR_OPERATION_ABORTED completion is processed by a select, and its
\* coroutine is resumed exactly once, with the TimedOut error.
C15_TimeoutResumesWithTimedOut ==
    \A t \in Ops :
        (io_state[t] = "posted" /\ ev_status[t] = ERROR_OPERATION_ABORTED)
            ~> (io_state[t] = "done" /\ co_para[t] = TimedOut /\ wakes[t] = 1)

C17_NoCoroutineBlockerDropped == "co" \notin dropped_blockers

C17_Witness ==
    /\ destroyed
    /\ "thread" \in dropped_blockers
    /\ rkind = "co"
    /\ received /= <<>>

\* C18: disconnection is stable: once a call has returned Disconnected or
\* RecvError, every later try_recv returns Disconnected and every later recv
\* returns RecvError, and it does so without waiting.
C18_DisconnectionStable ==
    /\ [][(rres.tag \in {"Disconnected", "RecvError"} /\ api /= "none" /\ api' = "none")
            => rres' = IF api \in {"try_recv", "try_iter"} THEN Disconnected
                       ELSE RecvError]_vars
    /\ [](rres.tag \in {"Disconnected", "RecvError"}
            => rpc \in {"idle", "try1", "tryrecv", "drain", "dropped"})

C18_Witness ==
    /\ rres = Disconnected
    /\ api = "recv"
    /\ rpc = "try1"
    /\ tpc = "ret"
    /\ tres = Disconnected

\* C19: next() of an iterator over the Receiver yields the sent items in
\* order, does not return while there is nothing to yield and the Sender is
\* alive, and yields None exactly when the Sender has been dropped and every
\* sent item has been yielded: None only then, and then next() does return None.
C19_IterYieldsInOrderThenNone ==
    /\ [][(api = "iter" /\ api' = "none")
            => \/ /\ inext'.tag = "Some"
                  /\ received' = Append(received, inext'.val)
                  /\ IsPrefix(received', sent)
               \/ /\ inext' = None
                  /\ channels = 0
                  /\ received = sent]_vars
    /\ (api = "iter" /\ spc = "dropped" /\ queue = <<>> /\ ~Holding)
          ~> (api = "none" /\ inext = None)

\* C20: send never waits and never fails for lack of room: with the Receiver
\* alive every send, however many items are queued, goes on to push exactly its
\* item at the tail and returns Ok(()); a recv that finds items queued returns
\* the oldest at once, without parking.
C20_SendNeverBlocksNorFails ==
    /\ [](spc \in SendPcs => ENABLED SenderStep)
    /\ [][(spc = "send_check" /\ ~port_dropped /\ spc' /= spc) => spc' = "send_push"]_vars
    /\ [][(spc = "send_push" /\ spc' /= spc)
            => (queue' = Append(queue, sval) /\ spc' = "send_take")]_vars
    /\ [][(spc = "send_take" /\ spc' /= spc) => (sres' = Ok(0) /\ spc' = "idle")]_vars
    /\ [][(rpc = "try1" /\ tpc = "pop1" /\ queue /= <<>> /\ tpc' /= tpc)
            => (tres' = Ok(Head(queue)) /\ queue' = Tail(queue) /\ tpc' = "ret")]_vars
    /\ [][(rpc = "try1" /\ tpc = "ret" /\ tres.tag = "Ok" /\ rpc' /= rpc)
            => (rres' = tres /\ rpc' = "idle")]_vars
    /\ []((rpc = "try1" /\ tpc = "ret" /\ tres.tag = "Ok") => ENABLED Try1Ret)

C20_Witness ==
    /\ Len(queue) = MaxSend
    /\ nsend = MaxSend
    /\ spc = "idle"
    /\ sres = Ok(0)
    /\ rpc = "try1"
    /\ tpc = "pop1"
    /\ received = <<>>

\* C21: once the Receiver is being dropped (port_dropped is set), a send that
\* reads the flag returns Err with its value and pushes nothing, so the loop
\* while tx.send(1).is_ok() {} ends; and once a send has returned Err every
\* later send returns Err.
C21_SendLoopEndsAfterPortDrop ==
    /\ (port_dropped /\ spc = "send_check") ~> (spc = "idle" /\ sres = Err(sval))
    /\ [][(port_dropped /\ spc = "send_check" /\ spc' /= spc)
            => (spc' = "idle" /\ sres' = Err(sval) /\ queue' = queue)]_vars
    /\ [][sres.tag = "Err" => sres'.tag = "Err"]_vars

C21_Witness ==
    /\ rpc = "dropped"
    /\ received = <<1>>
    /\ sent = <<1>>
    /\ nsend = MaxSend
    /\ spc = "idle"
    /\ sres = Err(MaxSend)

\* C22: select hands its timeout to the port as follows: None stays None (an
\* unbounded wait), Some(ns) becomes Some(min(ns_to_ms(ns), u32::MAX)); the
\* value fits the u32 without wrapping and no smaller ns gives a longer wait.
C22_TimeoutClamped ==
    /\ (~timeout_arg.some => port_wait = OptNone)
    /\ (timeout_arg.some =>
          /\ port_wait = OptSome(Min(ns_to_ms(timeout_arg.val), U32_MAX))
          /\ port_wait.val <= U32_MAX
          /\ \A ns \in 0..timeout_arg.val :
                select_timeout(OptSome(ns)).val <= port_wait.val)

C22_Witness ==
    /\ timeout_arg.some
    /\ ns_to_ms(timeout_arg.val) > U32_MAX + 1
    /\ port_wait = OptSome(U32_MAX)

\* C23: add_io is a no-op: it returns Ok(()) and leaves every EventData (its
\* coroutine slot, timer and status), the timer wheel, the port and the rest of
\* the selector as they were; it can be called in every state.
C23_AddIoNoOp ==
    /\ [][add_io_last' /= add_io_last
            => UNCHANGED <<io_state, ev_co, ev_timer, ev_status, timers, expired, fired,
                           port, events, idx, selpc, selres, co_para, wakes, sel_sched,
                           io_panic>>]_vars
    /\ [](io_panic = "none" => \A t \in Ops : add_io_last /= t => ENABLED AddIo(t))

C23_Witness ==
    \E t \in Ops :
        /\ add_io_last = t
        /\ io_state[t] = "inflight"
        /\ ev_co[t] = t
        /\ ev_timer[t]

\* C24: the Park on the coroutine's stack outlives subscribe: while subscribe
\* runs on the worker the recv is still inside yield_with / Drop for Park and
\* wait_kernel is set; the destructor returns only once the DropGuard has
\* cleared the flag, and clearing it is the last thing subscribe does.
C24_ParkOutlivesSubscribe ==
    /\ [](subpc /= "none" => (rpc = "parked" /\ wait_kernel))
    /\ [][(rpc = "parked" /\ rpc' /= "parked") => (~wait_kernel /\ subpc = "none")]_vars
    /\ [][(wait_kernel /\ ~wait_kernel') => (subpc = "guard" /\ subpc' = "none")]_vars

C24_Witness ==
    /\ rpc = "parked"
    /\ co = "running"
    /\ subpc = "check"
    /\ wait_co = 0
    /\ wait_kernel
    /\ spc = "idle"

\* C25: for every handle word with low bit 0, new_coroutine keeps the word and
\* into_coroutine gives the handle back; new_thread sets the low bit and
\* into_thread gives the handle back with the bit cleared; unpark schedules a
\* coroutine Blocker and unparks a thread Blocker, with the original handle,
\* never the other way round, and Drop for Blocker does not run.
C25_BlockerEncoding ==
    /\ (bl_stage = "made" =>
          /\ (bl_kind = "co" => (bl_word % 2 = 0 /\ bl_word = bl_handle))
          /\ (bl_kind = "thread" => (bl_word % 2 = 1 /\ bl_word = bl_handle + 1)))
    /\ (bl_stage \in {"into", "unparked"} => bl_out = bl_handle)
    /\ (bl_stage = "unparked" =>
          /\ (bl_kind = "co" => (ready = 1 /\ ~token))
          /\ (bl_kind = "thread" => (ready = 0 /\ token)))
    /\ dropped_blockers = {}

C25_Witness ==
    /\ bl_stage = "unparked"
    /\ bl_kind = "thread"
    /\ bl_handle = MaxHandle
    /\ token

\* the completions select can still dequeue or has dequeued and not yet processed
Dequeuable ==
    {port[i] : i \in 1..Len(port)} \cup {events[i] : i \in idx..Len(events)}

\* C26: SocketWrite::subscribe registers the timer, then publishes the
\* coroutine, then issues the write; so whenever a completion of the operation
\* can be dequeued by select the EventData holds the coroutine, and the unwrap
\* in select does not fail.
C26_PublishedBeforeCompletion ==
    /\ \A t \in Ops : io_state[t] \in {"published", "inflight"} => ev_co[t] = t
    /\ \A t \in Ops : io_state[t] = "new" => (ev_co[t] = 0 /\ ~ev_timer[t] /\ t \notin timers)
    /\ \A t \in Dequeuable : ev_co[t] = t /\ io_state[t] = "posted"
    /\ (selpc = "loop" /\ idx <= Len(events)) => ev_co[events[idx]] /= 0

C26_Witness ==
    /\ selpc = "loop"
    /\ idx <= Len(events)
    /\ ev_co[events[idx]] = events[idx]
    /\ ev_timer[events[idx]]
    /\ port /= <<>>

\* C27: when the overlapped write fails at once, subscribe takes the coroutine
\* back out of io_data.co and schedules it with the error: the coroutine is
\* scheduled exactly once for the operation, no completion of the operation
\* reaches select, and the coroutine is not left in the EventData.
C27_SyncFailureSchedulesOnce ==
    \A t \in Ops :
        io_state[t] = "failed" =>
            /\ wakes[t] = 1
            /\ ev_co[t] = 0
            /\ co_para[t].kind = "Os"
            /\ t \notin Dequeuable
            /\ sel_sched[t] = 0

C27_Witness ==
    \E t, u \in Ops :
        /\ io_state[t] = "failed"
        /\ wakes[t] = 1
        /\ io_state[u] = "done"
        /\ selpc = "idle"
        /\ selres = "Ok"

\* C28: next() of TryIter never waits: it is one try_recv, whose result it
\* returns at once: Some(item) for Ok(item), the items in send order, and None
\* for Empty and for Disconnected; a later next() can yield again.
C28_TryIterNeverBlocks ==
    /\ [](api = "try_iter" =>
            (rpc = "tryrecv" /\ tpc /= "none" /\ ENABLED (TryRecvStep \/ TryRecvRet)))
    /\ [][(api = "try_iter" /\ api' = "none") =>
            /\ tpc = "ret"
            /\ (tres.tag = "Ok" =>
                  /\ inext' = Some(tres.val)
                  /\ received' = Append(received, tres.val)
                  /\ IsPrefix(received', sent))
            /\ (tres.tag \in {"Empty", "Disconnected"} =>
                  (inext' = None /\ received' = received))]_vars

C28_Witness ==
    /\ api = "try_iter"
    /\ tpc = "ret"
    /\ tres = Ok(2)
    /\ inext = None
    /\ rres = Empty
    /\ received = <<1>>

\* C29: when get_many fails with WAIT_TIMEOUT select goes on with zero events,
\* schedules no coroutine and returns Ok(()); when it fails with another error
\* select returns the error at once, with no coroutine scheduled and no
\* EventData changed.
C29_PollErrorOutcomes ==
    /\ [](poll_res = "WAIT_TIMEOUT" =>
            (selpc = "loop" /\ events = <<>> /\ \A c \in Ops : sel_sched[c] = 0))
    /\ [][(poll_res = "WAIT_TIMEOUT" \/ poll_res' = "WAIT_TIMEOUT")
            => UNCHANGED <<wakes, co_para, ev_co, ev_timer, ev_status, io_state>>
               \/ (poll_res' = poll_res /\ selpc' = selpc /\ selres' = selres)]_vars
    /\ [][(poll_res = "WAIT_TIMEOUT" /\ poll_res' /= poll_res)
            => (selres' = "Ok" /\ selpc' = "idle")]_vars
    /\ [][(selres' = "Err" /\ selres /= "Err")
            => (selpc = "idle" /\ selpc' = "idle"
                /\ UNCHANGED <<wakes, co_para, ev_co, ev_timer, ev_status, io_state,
                               sel_sched, port, timers>>)]_vars

C29_Witness ==
    /\ selres = "Err"
    /\ poll_res = "WAIT_TIMEOUT"
    /\ \E t \in Ops : io_state[t] = "inflight"

\* C30: once the drop of the Receiver has completed and no send is in
\* progress, the queue holds no item.
C30_QueueEmptyAfterPortDrop ==
    (rpc = "dropped" /\ spc \in {"idle", "dropped"}) => queue = <<>>

\* C31: whenever the receiver stores a Blocker into the waiter slot with
\* unsync_store, in recv on the OS-thread path or in subscribe on the coroutine
\* path, the slot is empty: no Blocker is overwritten.
C31_SlotEmptyAtStore ==
    [][((rpc = "store" /\ rpc' = "try2") \/ (subpc = "store" /\ subpc' = "check"))
          => wait_co = 0]_vars

\* C32: the loop in Drop for Park ends: wait_kernel, true from Park::new, is
\* set to false on every path through subscribe, and a resumed coroutine gets
\* past the destructor to its retry of try_recv.
C32_ParkDestructorTerminates ==
    /\ wait_kernel ~> ~wait_kernel
    /\ (rpc = "parked" /\ co = "running") ~> (rpc = "try3")

C32_Witness ==
    /\ rpc = "parked"
    /\ wait_kernel
    /\ subpc = "guard"
    /\ co = "suspended"
    /\ ready = 1
    /\ wait_co = 0
    /\ queue /= <<>>

\* C33: SplitReader and SplitWriter are transparent: read, write and flush
\* return what the same call on the wrapped object returns and leave it and the
\* other wrapper as that call does, and inner() gives the object given to new.
C33_WrappersTransparent ==
    /\ split_res = bare_res
    /\ split_reader = bare_reader
    /\ split_writer = bare_writer
    /\ split_op = "reader_inner" => split_res = split_reader.inner
    /\ split_op = "writer_inner" => split_res = split_writer.inner

C33_Witness ==
    /\ split_op = "flush"
    /\ split_res = Ok(0)
    /\ split_writer.inner.flushed = MaxBytes
    /\ split_reader /= NoWrapper
    /\ split_reader.inner.avail = 0
    /\ split_reader.inner.id /= split_writer.inner.id

====
